---- MODULE Spec2Model ----
(***************************************************************************)
(* Conversation state machines of the four scripts: agent_bot.py and       *)
(* memory_agent.py (input loop around a one-node graph), drafter.py        *)
(* (agent node -> tools node -> should_continue) and react.py (model node  *)
(* -> should_continue -> tools node).                                      *)
(*                                                                         *)
(* Text is modelled as a sequence of one-character strings, so that        *)
(* str.lower, str.endswith, the `in` substring test, str(int) and the      *)
(* f-strings are computed character by character.                          *)
(***************************************************************************)
EXTENDS Integers, Sequences, FiniteSets

\* ------------------------------------------------------------------ bounds

\* Exchanges of one session of a loop script (agent_bot, memory_agent).
MaxExchanges == 3

\* Completion requests of one run of a graph script (drafter, react).
MaxRequests == 2

\* ------------------------------------------------------------- python text

UpperChars ==
    <<"A", "B", "C", "D", "E", "F", "G", "H", "I", "J", "K", "L", "M", "N",
       "O", "P", "Q", "R", "S", "T", "U", "V", "W", "X", "Y", "Z">>

LowerChars ==
    <<"a", "b", "c", "d", "e", "f", "g", "h", "i", "j", "k", "l", "m", "n",
       "o", "p", "q", "r", "s", "t", "u", "v", "w", "x", "y", "z">>

\* The lower-case letter of every upper-case letter.
LowerOf ==
    [c \in {UpperChars[i] : i \in DOMAIN UpperChars} |->
        LowerChars[CHOOSE i \in DOMAIN UpperChars : UpperChars[i] = c]]

\* str.lower on one character (ASCII letters).
lower_char(c) ==
    IF c \in DOMAIN LowerOf THEN LowerOf[c] ELSE c

\* str.lower
lower(s) ==
    [i \in 1..Len(s) |-> lower_char(s[i])]

\* Python's `sub in s` on strings.
contains(s, sub) ==
    \E i \in 0..(Len(s) - Len(sub)) : \A j \in DOMAIN sub : s[i + j] = sub[j]

\* str.endswith
endswith(s, suffix) ==
    /\ Len(s) >= Len(suffix)
    /\ SubSeq(s, Len(s) - Len(suffix) + 1, Len(s)) = suffix

Digits ==
    <<"0", "1", "2", "3", "4", "5", "6", "7", "8", "9">>

RECURSIVE nat_str(_)
\* The decimal digits of a natural number.
nat_str(n) ==
    IF n < Len(Digits)
    THEN <<Digits[n + 1]>>
    ELSE nat_str(n \div Len(Digits)) \o <<Digits[(n % Len(Digits)) + 1]>>

\* str(int): the text the tool layer puts in a ToolMessage for an int result.
int_str(n) ==
    IF n < 0 THEN <<"-">> \o nat_str(0 - n) ELSE nat_str(n)

\* ---------------------------------------------------------------- messages

\* A message id of 0 stands for id=None (no id assigned yet).
HumanMessage(content) ==
    [type |-> "human", content |-> content, tool_calls |-> <<>>,
     name |-> "", tool_call_id |-> 0, id |-> 0]

AIMessage(content, tool_calls) ==
    [type |-> "ai", content |-> content, tool_calls |-> tool_calls,
     name |-> "", tool_call_id |-> 0, id |-> 0]

ToolMessage(content, name, tool_call_id) ==
    [type |-> "tool", content |-> content, tool_calls |-> <<>>,
     name |-> name, tool_call_id |-> tool_call_id, id |-> 0]

\* The largest id in a list of messages (0 for none).
max_id(msgs) ==
    IF \A i \in DOMAIN msgs : msgs[i].id = 0
    THEN 0
    ELSE CHOOSE n \in {msgs[i].id : i \in DOMAIN msgs} :
             \A i \in DOMAIN msgs : msgs[i].id <= n

RECURSIVE assign_ids(_, _)
\* add_messages gives every message without an id a fresh one (a uuid4 in the
\* library, the next unused number here).
assign_ids(msgs, n) ==
    IF msgs = <<>>
    THEN <<>>
    ELSE IF Head(msgs).id = 0
         THEN <<[Head(msgs) EXCEPT !.id = n + 1]>> \o assign_ids(Tail(msgs), n + 1)
         ELSE <<Head(msgs)>> \o assign_ids(Tail(msgs), n)

RECURSIVE merge_by_id(_, _)
\* add_messages merges right into left: a message whose id is already in
\* left replaces that message in place, any other message is appended.
merge_by_id(left, right) ==
    IF right = <<>>
    THEN left
    ELSE LET m == Head(right)
         IN IF \E i \in DOMAIN left : left[i].id = m.id
            THEN merge_by_id(
                     [left EXCEPT ![CHOOSE i \in DOMAIN left : left[i].id = m.id] = m],
                     Tail(right))
            ELSE merge_by_id(Append(left, m), Tail(right))

\* A plausible slip: the channel has no reducer, the update overwrites it.
add_messages_overwrite(left, right) ==
    assign_ids(right, max_id(left \o right))

\* The reducer of AgentState.messages in drafter.py and react.py.
add_messages(left, right) ==
    LET l == assign_ids(left, max_id(left \o right))
        r == assign_ids(right, max_id(l \o right))
    IN merge_by_id(l, r)

\* ------------------------------------------------------------ environment

\* Lines the user types at a prompt.
Inputs ==
    {<<"e", "x", "i", "t">>, <<"E", "X", "I", "T">>, <<"E", "x", "i", "t">>, <<"h", "i">>}

ExitKeyword ==
    <<"e", "x", "i", "t">>

\* Text of a completion.
AIContents ==
    {<<"o", "k">>}

LoopVariants ==
    {"agent_bot", "memory_agent"}

ToolVariants ==
    {"drafter", "react"}

Variants ==
    LoopVariants \cup ToolVariants

LoggingFile ==
    <<"l", "o", "g", "g", "i", "n", "g", ".", "t", "x", "t">>

TxtSuffix ==
    <<".", "t", "x", "t">>

\* File names the model asks save to write to.
Filenames ==
    {<<"x">>, <<"x", ".", "t", "x", "t">>, <<"s", "a", "v", "e", "d">>}

\* Document contents the model asks update to set.
Contents ==
    {<<"h", "e", "l", "l", "o">>, <<"S", "a", "v", "e", "d">>}

\* The suffix is appended without looking at the name.
save_target_always_append(filename) ==
    filename \o TxtSuffix

\* save's target: filename, with .txt appended unless it ends with it.
save_target(filename) ==
    IF ~endswith(filename, TxtSuffix) THEN filename \o TxtSuffix ELSE filename

FileNames ==
    {save_target(f) : f \in Filenames} \cup {LoggingFile}

NoFile ==
    [exists |-> FALSE, content |-> <<>>]

File(content) ==
    [exists |-> TRUE, content |-> content]

\* What is on disk when a session starts.
InitialFiles ==
    {[f \in FileNames |-> NoFile],
     [f \in FileNames |-> IF f = LoggingFile THEN File(<<"o", "l", "d">>) ELSE NoFile]}

\* ------------------------------------------------------------------- state

VARIABLES
    variant,            \* which script runs
    pc,                 \* where its control is
    messages,           \* conversation_history / state["messages"]
    document_content,   \* drafter.py's global
    fs,                 \* the files on disk
    llmCalls,           \* completion requests issued so far
    inputsRead,         \* lines read by input() so far
    lastInput,          \* the last line read by input()
    exchanges,          \* completed exchanges (an input answered by the model)
    toolsRuns,          \* times the tools node has run
    requested,          \* tool calls the tools node was last entered with
    executed,           \* the order in which it ran them
    outcomes,           \* how the file operation of each of them went
    savesWritten        \* save calls that wrote their file, so far

vars ==
    <<variant, pc, messages, document_content, fs, llmCalls, inputsRead,
      lastInput, exchanges, toolsRuns, requested, executed, outcomes,
      savesWritten>>

toolVars ==
    <<toolsRuns, requested, executed, outcomes, savesWritten>>

\* -------------------------------------------------------- agent_bot.py

\* The exit test compares the line as typed.
is_exit_case_sensitive(user_input) ==
    user_input = ExitKeyword

\* The while test of run_chat_agent and run_memory_agent, negated:
\* user_input.lower() != "exit" is false.
is_exit(user_input) ==
    lower(user_input) = ExitKeyword

\* process forgets the append: the returned state lacks the response.
process_no_append(state_messages, response) ==
    state_messages

\* process: the response's content is appended as an AIMessage.
process(state_messages, response) ==
    Append(state_messages, AIMessage(response.content, <<>>))

\* What llm.invoke can return in the loop scripts (no tools are bound).
LoopResponses ==
    {[content |-> c, tool_calls |-> <<>>] : c \in AIContents}

\* input("Enter: ") and the while test of run_chat_agent; a line other than
\* the exit keyword is appended as a HumanMessage and the agent is invoked.
run_chat_agent ==
    /\ variant = "agent_bot"
    /\ pc = "prompt"
    /\ \E user_input \in Inputs :
         /\ lastInput' = user_input
         /\ inputsRead' = inputsRead + 1
         /\ IF is_exit(user_input)
            THEN /\ pc' = "done"
                 /\ messages' = messages
            ELSE /\ exchanges < MaxExchanges
                 /\ messages' = Append(messages, HumanMessage(user_input))
                 /\ pc' = "process"
    /\ UNCHANGED <<variant, document_content, fs, llmCalls, exchanges, toolVars>>

\* A failed completion request is issued again.
agent_bot_process_retry ==
    /\ variant = "agent_bot"
    /\ pc = "process"
    /\ llmCalls' = llmCalls + 1
    /\ \/ /\ llmCalls < MaxExchanges
          /\ pc' = "process"
          /\ UNCHANGED <<messages, exchanges>>
       \/ \E response \in LoopResponses :
            /\ messages' = process(messages, response)
            /\ exchanges' = exchanges + 1
            /\ pc' = "prompt"
    /\ UNCHANGED <<variant, document_content, fs, inputsRead, lastInput, toolVars>>

\* The graph START -> process -> END of agent_bot.py; an exception of
\* llm.invoke is not caught anywhere.
agent_bot_process ==
    /\ variant = "agent_bot"
    /\ pc = "process"
    /\ llmCalls' = llmCalls + 1
    /\ \/ /\ pc' = "crashed"
          /\ UNCHANGED <<messages, exchanges>>
       \/ \E response \in LoopResponses :
            /\ messages' = process(messages, response)
            /\ exchanges' = exchanges + 1
            /\ pc' = "prompt"
    /\ UNCHANGED <<variant, document_content, fs, inputsRead, lastInput, toolVars>>

\* ----------------------------------------------------- memory_agent.py

\* input("Enter: ") and the while test of run_memory_agent.
run_memory_agent ==
    /\ variant = "memory_agent"
    /\ pc = "prompt"
    /\ \E user_input \in Inputs :
         /\ lastInput' = user_input
         /\ inputsRead' = inputsRead + 1
         /\ IF is_exit(user_input)
            THEN /\ pc' = "log"
                 /\ messages' = messages
            ELSE /\ exchanges < MaxExchanges
                 /\ messages' = Append(messages, HumanMessage(user_input))
                 /\ pc' = "process"
    /\ UNCHANGED <<variant, document_content, fs, llmCalls, exchanges, toolVars>>

\* The transcript is written on the way out of a failed completion too.
memory_agent_process_logs_on_failure ==
    /\ variant = "memory_agent"
    /\ pc = "process"
    /\ llmCalls' = llmCalls + 1
    /\ \/ /\ pc' = "log"
          /\ UNCHANGED <<messages, exchanges>>
       \/ \E response \in LoopResponses :
            /\ messages' = process(messages, response)
            /\ exchanges' = exchanges + 1
            /\ pc' = "prompt"
    /\ UNCHANGED <<variant, document_content, fs, inputsRead, lastInput, toolVars>>

\* The graph START -> process -> END of memory_agent.py.
memory_agent_process ==
    /\ variant = "memory_agent"
    /\ pc = "process"
    /\ llmCalls' = llmCalls + 1
    /\ \/ /\ pc' = "crashed"
          /\ UNCHANGED <<messages, exchanges>>
       \/ \E response \in LoopResponses :
            /\ messages' = process(messages, response)
            /\ exchanges' = exchanges + 1
            /\ pc' = "prompt"
    /\ UNCHANGED <<variant, document_content, fs, inputsRead, lastInput, toolVars>>

LogHeader ==
    <<"Y", "o", "u", "r", " ", "C", "o", "n", "v", "e", "r", "s", "a", "t",
       "i", "o", "n", " ", "L", "o", "g", ":", "\n">>

LogTrailer ==
    <<"E", "n", "d", " ", "o", "f", " ", "C", "o", "n", "v", "e", "r", "s",
       "a", "t", "i", "o", "n">>

RECURSIVE log_lines(_)
\* The for loop over conversation_history that writes the transcript.
log_lines(msgs) ==
    IF msgs = <<>>
    THEN <<>>
    ELSE LET message == Head(msgs)
             line == IF message.type = "human"
                     THEN <<"Y", "o", "u", ":", " ">> \o message.content \o <<"\n">>
                     ELSE IF message.type = "ai"
                          THEN <<"A", "I", ":", " ">> \o message.content \o <<"\n", "\n">>
                          ELSE <<>>
         IN line \o log_lines(Tail(msgs))

\* Everything run_memory_agent writes to logging.txt.
transcript(msgs) ==
    LogHeader \o log_lines(msgs) \o LogTrailer

\* How a file operation can go: it works, open() raises, or a write raises
\* after open() has truncated the file.
IOOutcomes ==
    {"ok", "open_fails", "write_fails"}

\* The file is opened in append mode.
write_log_appends ==
    /\ variant = "memory_agent"
    /\ pc = "log"
    /\ \E io \in IOOutcomes :
         /\ fs' = CASE io = "ok" ->
                        [fs EXCEPT ![LoggingFile] =
                            File(fs[LoggingFile].content \o transcript(messages))]
                    [] io = "open_fails" -> fs
                    [] io = "write_fails" -> [fs EXCEPT ![LoggingFile] = File(<<>>)]
         /\ pc' = IF io = "ok" THEN "done" ELSE "crashed"
    /\ UNCHANGED <<variant, messages, document_content, llmCalls, inputsRead,
                   lastInput, exchanges, toolVars>>

\* The with open("logging.txt", "w") block after the loop; it has no
\* try/except, so an OSError leaves run_memory_agent.
write_log ==
    /\ variant = "memory_agent"
    /\ pc = "log"
    /\ \E io \in IOOutcomes :
         /\ fs' = CASE io = "ok" -> [fs EXCEPT ![LoggingFile] = File(transcript(messages))]
                    [] io = "open_fails" -> fs
                    [] io = "write_fails" -> [fs EXCEPT ![LoggingFile] = File(<<>>)]
         /\ pc' = IF io = "ok" THEN "done" ELSE "crashed"
    /\ UNCHANGED <<variant, messages, document_content, llmCalls, inputsRead,
                   lastInput, exchanges, toolVars>>

\* ----------------------------------------------------------------- tools

ToolCall(name, args) ==
    [name |-> name, args |-> args]

\* The orders in which k submitted calls can take effect.
ExecutionOrders(k) ==
    {o \in [1..k -> 1..k] : \A i, j \in 1..k : i # j => o[i] # o[j]}

\* The results are collected last call first.
tool_messages_reversed(calls, results) ==
    [i \in 1..Len(calls) |->
        ToolMessage(results[Len(calls) + 1 - i], calls[Len(calls) + 1 - i].name,
                    Len(calls) + 1 - i)]

\* ToolNode: one ToolMessage per requested call, in the order of the calls,
\* whatever the order in which the calls ran.
tool_messages(calls, results) ==
    [i \in 1..Len(calls) |-> ToolMessage(results[i], calls[i].name, i)]

\* ------------------------------------------------------------ drafter.py

FirstUserInput ==
    <<"I", "'", "m", " ", "r", "e", "a", "d", "y", " ", "t", "o", " ", "h",
       "e", "l", "p", " ", "y", "o", "u", " ", "u", "p", "d", "a", "t", "e",
       " ", "a", " ", "d", "o", "c", "u", "m", "e", "n", "t", ".", " ", "W",
       "h", "a", "t", " ", "w", "o", "u", "l", "d", " ", "y", "o", "u", " ",
       "l", "i", "k", "e", " ", "t", "o", " ", "c", "r", "e", "a", "t", "e",
       "?">>

UpdatedPrefix ==
    <<"D", "o", "c", "u", "m", "e", "n", "t", " ", "h", "a", "s", " ", "b",
       "e", "e", "n", " ", "u", "p", "d", "a", "t", "e", "d", " ", "s", "u",
       "c", "c", "e", "s", "s", "f", "u", "l", "l", "y", "!", " ", "T", "h",
       "e", " ", "c", "u", "r", "r", "e", "n", "t", " ", "c", "o", "n", "t",
       "e", "n", "t", " ", "i", "s", ":", "\n">>

SavedPrefix ==
    <<"D", "o", "c", "u", "m", "e", "n", "t", " ", "h", "a", "s", " ", "b",
       "e", "e", "n", " ", "s", "a", "v", "e", "d", " ", "s", "u", "c", "c",
       "e", "s", "s", "f", "u", "l", "l", "y", " ", "t", "o", " ", "'">>

SavedSuffix ==
    <<"'", ".">>

ErrorPrefix ==
    <<"E", "r", "r", "o", "r", " ", "s", "a", "v", "i", "n", "g", " ", "d",
       "o", "c", "u", "m", "e", "n", "t", ":", " ">>

Marker ==
    <<"s", "a", "v", "e", "d">>

\* str(e) of the exception a failed save catches: open() names the file in
\* its message, a failed write does not.
error_text(io, filename) ==
    IF io = "open_fails"
    THEN <<"[", "E", "r", "r", "n", "o", " ", "1", "3", "]", " ", "P", "e", "r",
       "m", "i", "s", "s", "i", "o", "n", " ", "d", "e", "n", "i", "e", "d",
       ":", " ", "'">> \o filename \o <<"'">>
    ELSE <<"d", "i", "s", "k", " ", "f", "u", "l", "l">>

\* The update tool: the global is replaced, the result echoes it.
update(content) ==
    [document_content |-> content,
     result |-> UpdatedPrefix \o content]

\* The except branch returns str(e) alone.
save_error_bare(filename, doc, files, io) ==
    LET target == save_target(filename)
    IN CASE io = "ok" ->
              [fs |-> [files EXCEPT ![target] = File(doc)],
               result |-> SavedPrefix \o target \o SavedSuffix]
         [] io = "open_fails" ->
              [fs |-> files,
               result |-> error_text(io, target)]
         [] io = "write_fails" ->
              [fs |-> [files EXCEPT ![target] = File(<<>>)],
               result |-> error_text(io, target)]

\* The save tool on the document as it is when the write happens.
save(filename, doc, files, io) ==
    LET target == save_target(filename)
    IN CASE io = "ok" ->
              [fs |-> [files EXCEPT ![target] = File(doc)],
               result |-> SavedPrefix \o target \o SavedSuffix]
         [] io = "open_fails" ->
              [fs |-> files,
               result |-> ErrorPrefix \o error_text(io, target)]
         [] io = "write_fails" ->
              [fs |-> [files EXCEPT ![target] = File(<<>>)],
               result |-> ErrorPrefix \o error_text(io, target)]

\* One call of the drafter's tools on the state st = [doc, fs, results].
drafter_run_one(call, i, io, st) ==
    IF call.name = "update"
    THEN LET u == update(call.args[1])
         IN [doc |-> u.document_content, fs |-> st.fs,
             results |-> [st.results EXCEPT ![i] = u.result]]
    ELSE LET s == save(call.args[1], st.doc, st.fs, io)
         IN [doc |-> st.doc, fs |-> s.fs,
             results |-> [st.results EXCEPT ![i] = s.result]]

RECURSIVE drafter_run(_, _, _, _)
\* The calls of one Assistant turn taking effect in the order `order`.
drafter_run(calls, order, io, st) ==
    IF order = <<>>
    THEN st
    ELSE drafter_run(calls, Tail(order), io,
                     drafter_run_one(calls[Head(order)], Head(order), io[Head(order)], st))

\* Tool-call lists the model answers with in drafter.py.
DrafterRequests ==
    {<<>>,
     <<ToolCall("update", <<<<"h", "e", "l", "l", "o">>>>)>>,
     <<ToolCall("update", <<<<"S", "a", "v", "e", "d">>>>)>>,
     <<ToolCall("save", <<<<"x">>>>)>>,
     <<ToolCall("save", <<<<"x", ".", "t", "x", "t">>>>)>>,
     <<ToolCall("save", <<<<"s", "a", "v", "e", "d">>>>)>>,
     <<ToolCall("update", <<<<"h", "e", "l", "l", "o">>>>), ToolCall("save", <<<<"x">>>>)>>,
     <<ToolCall("save", <<<<"x">>>>), ToolCall("update", <<<<"h", "e", "l", "l", "o">>>>)>>}

DrafterResponses ==
    {[content |-> c, tool_calls |-> tc] : c \in AIContents, tc \in DrafterRequests}

\* our_agent returns only the response.
our_agent_update_response_only(state_messages, user_message, response) ==
    <<response>>

\* The value our_agent returns for the messages channel.
our_agent_update(state_messages, user_message, response) ==
    state_messages \o <<user_message, response>>

\* our_agent never prompts.
reads_input_never(state_messages) ==
    FALSE

\* our_agent's if not state["messages"]: the first turn is canned, every
\* later one is read with input().
reads_input(state_messages) ==
    state_messages # <<>>

\* The marker is searched as "sav".
should_continue_short_marker(state_messages) ==
    IF state_messages = <<>>
    THEN "continue"
    ELSE IF \E i \in DOMAIN state_messages :
                /\ state_messages[i].type = "tool"
                /\ contains(lower(state_messages[i].content), SubSeq(Marker, 1, 3))
         THEN "end"
         ELSE "continue"

\* should_continue of drafter.py: the for loop over reversed(messages) returns
\* "end" at any ToolMessage whose lowered content contains "saved".
should_continue(state_messages) ==
    IF state_messages = <<>>
    THEN "continue"
    ELSE IF \E i \in DOMAIN state_messages :
                /\ state_messages[i].type = "tool"
                /\ contains(lower(state_messages[i].content), Marker)
         THEN "end"
         ELSE "continue"

\* The agent node: the user message (canned or read), the completion
\* request, and the update of the messages channel through add_messages.
our_agent ==
    /\ variant = "drafter"
    /\ pc = "agent"
    /\ llmCalls < MaxRequests
    /\ \E user_input \in (IF reads_input(messages) THEN Inputs ELSE {FirstUserInput}) :
         /\ IF reads_input(messages)
            THEN /\ lastInput' = user_input
                 /\ inputsRead' = inputsRead + 1
            ELSE UNCHANGED <<lastInput, inputsRead>>
         /\ llmCalls' = llmCalls + 1
         /\ \/ /\ pc' = "crashed"
               /\ UNCHANGED <<messages, exchanges>>
            \/ \E response \in DrafterResponses :
                 /\ messages' = add_messages(messages,
                                    our_agent_update(messages, HumanMessage(user_input),
                                        AIMessage(response.content, response.tool_calls)))
                 /\ exchanges' = exchanges + 1
                 /\ pc' = "tools"
    /\ UNCHANGED <<variant, document_content, fs, toolVars>>

\* The tools node (ToolNode over update and save) and the conditional edge
\* after it. ToolNode hands the calls of the last AIMessage to a thread
\* pool (executor.map): results come back in the order of the calls, the
\* calls themselves take effect in any order.
drafter_tools ==
    /\ variant = "drafter"
    /\ pc = "tools"
    /\ LET calls == messages[Len(messages)].tool_calls
           k == Len(calls)
       IN \E order \in ExecutionOrders(k), io \in [1..k -> IOOutcomes] :
            LET st == drafter_run(calls, order, io,
                          [doc |-> document_content, fs |-> fs,
                           results |-> [i \in 1..k |-> <<>>]])
            IN /\ (\A i \in 1..k : calls[i].name = "update" => io[i] = "ok")
               /\ document_content' = st.doc
               /\ fs' = st.fs
               /\ messages' = add_messages(messages, tool_messages(calls, st.results))
               /\ requested' = calls
               /\ executed' = order
               /\ outcomes' = io
               /\ savesWritten' = savesWritten + Cardinality(
                      {i \in 1..k : calls[i].name = "save" /\ io[i] = "ok"})
               /\ toolsRuns' = toolsRuns + 1
               /\ pc' = IF should_continue(messages') = "end" THEN "end" ELSE "agent"
    /\ UNCHANGED <<variant, llmCalls, inputsRead, lastInput, exchanges>>

\* -------------------------------------------------------------- react.py

ReactInput ==
    <<"A", "d", "d", " ", "4", "0", " ", "+", " ", "1", "2", " ", "a", "n",
       "d", " ", "t", "h", "e", "n", " ", "m", "u", "l", "t", "i", "p", "l",
       "y", " ", "t", "h", "e", " ", "r", "e", "s", "u", "l", "t", " ", "b",
       "y", " ", "6", ".", " ", "A", "l", "s", "o", " ", "t", "e", "l", "l",
       " ", "m", "e", " ", "a", " ", "j", "o", "k", "e", " ", "p", "l", "e",
       "a", "s", "e", ".">>

add(a, b) ==
    a + b

subtract(a, b) ==
    a - b

multiply(a, b) ==
    a * b

\* The result of one arithmetic tool call, as the text of its ToolMessage.
react_run_one(call) ==
    int_str(CASE call.name = "add" -> add(call.args[1], call.args[2])
              [] call.name = "subtract" -> subtract(call.args[1], call.args[2])
              [] call.name = "multiply" -> multiply(call.args[1], call.args[2]))

\* Tool-call lists the model answers with in react.py.
ReactRequests ==
    {<<>>,
     <<ToolCall("add", <<40, 12>>)>>,
     <<ToolCall("multiply", <<52, 6>>)>>,
     <<ToolCall("subtract", <<12, 40>>)>>,
     <<ToolCall("add", <<40, 12>>), ToolCall("multiply", <<52, 6>>)>>}

ReactResponses ==
    {[content |-> c, tool_calls |-> tc] : c \in AIContents, tc \in ReactRequests}

\* The test is on the presence of the field, not on the list.
react_should_continue_field_present(state_messages) ==
    LET last_message == state_messages[Len(state_messages)]
    IN IF last_message.type # "ai" THEN "end" ELSE "continue"

\* The workflow ends whatever the last message holds.
react_should_continue_always_end(state_messages) ==
    "end"

\* should_continue of react.py.
react_should_continue(state_messages) ==
    LET last_message == state_messages[Len(state_messages)]
    IN IF last_message.tool_calls = <<>> THEN "end" ELSE "continue"

\* The our_agent node (model_call) and the conditional edge after it.
model_call ==
    /\ variant = "react"
    /\ pc = "our_agent"
    /\ llmCalls < MaxRequests
    /\ llmCalls' = llmCalls + 1
    /\ \/ /\ pc' = "crashed"
          /\ UNCHANGED <<messages, exchanges>>
       \/ \E response \in ReactResponses :
            /\ messages' = add_messages(messages,
                               <<AIMessage(response.content, response.tool_calls)>>)
            /\ pc' = IF react_should_continue(messages') = "continue"
                     THEN "tools" ELSE "end"
            /\ exchanges' = IF pc' = "end" THEN exchanges + 1 ELSE exchanges
    /\ UNCHANGED <<variant, document_content, fs, inputsRead, lastInput, toolVars>>

\* The tools node of react.py (ToolNode over add, subtract, multiply) and
\* the edge back to our_agent.
react_tools ==
    /\ variant = "react"
    /\ pc = "tools"
    /\ LET calls == messages[Len(messages)].tool_calls
           k == Len(calls)
       IN \E order \in ExecutionOrders(k) :
            /\ messages' = add_messages(messages,
                   tool_messages(calls, [i \in 1..k |-> react_run_one(calls[i])]))
            /\ requested' = calls
            /\ executed' = order
            /\ outcomes' = [i \in 1..k |-> "ok"]
            /\ toolsRuns' = toolsRuns + 1
            /\ pc' = "our_agent"
    /\ UNCHANGED <<variant, document_content, fs, llmCalls, inputsRead,
                   lastInput, exchanges, savesWritten>>

\* ---------------------------------------------------------- specification

InitialPc(v) ==
    CASE v \in LoopVariants -> "prompt"
      [] v = "drafter" -> "agent"
      [] v = "react" -> "our_agent"

Init ==
    /\ variant \in Variants
    /\ pc = InitialPc(variant)
    /\ messages = IF variant = "react"
                  THEN add_messages(<<>>, <<HumanMessage(ReactInput)>>)
                  ELSE <<>>
    /\ document_content = <<>>
    /\ fs \in (IF variant = "memory_agent" THEN InitialFiles
               ELSE {[f \in FileNames |-> NoFile]})
    /\ llmCalls = 0
    /\ inputsRead = 0
    /\ lastInput = <<>>
    /\ exchanges = 0
    /\ toolsRuns = 0
    /\ requested = <<>>
    /\ executed = <<>>
    /\ outcomes = <<>>
    /\ savesWritten = 0

Next ==
    \/ run_chat_agent
    \/ agent_bot_process
    \/ run_memory_agent
    \/ memory_agent_process
    \/ write_log
    \/ our_agent
    \/ drafter_tools
    \/ model_call
    \/ react_tools

Spec ==
    Init /\ [][Next]_vars


\* ------------------------------------------------------------- properties

\* Every spelling of the exit keyword, letter by letter.
ExitSpellings ==
    {<<a, b, c, d>> : a \in {"e", "E"}, b \in {"x", "X"},
                      c \in {"i", "I"}, d \in {"t", "T"}}

IsPrefix(s, t) ==
    /\ Len(s) <= Len(t)
    /\ \A i \in DOMAIN s : t[i] = s[i]

Count(msgs, type) ==
    Cardinality({i \in DOMAIN msgs : msgs[i].type = type})

\* The contents of the ToolResult turns of a conversation.
ToolContents(msgs) ==
    {msgs[i].content : i \in {j \in DOMAIN msgs : msgs[j].type = "tool"}}

\* The index of the most recent ToolResult turn (0 when there is none).
LastToolIndex(msgs) ==
    IF \E i \in DOMAIN msgs : msgs[i].type = "tool"
    THEN CHOOSE i \in DOMAIN msgs :
             /\ msgs[i].type = "tool"
             /\ \A j \in DOMAIN msgs : msgs[j].type = "tool" => j <= i
    ELSE 0

\* Every tool invocation of every Assistant turn is followed, in the order
\* of the invocations, by its ToolResult turn.
Answered(msgs) ==
    \A a \in DOMAIN msgs :
        msgs[a].type = "ai" =>
            \A i \in DOMAIN msgs[a].tool_calls :
                /\ a + i <= Len(msgs)
                /\ msgs[a + i].type = "tool"
                /\ msgs[a + i].name = msgs[a].tool_calls[i].name
                /\ msgs[a + i].tool_call_id = i

\* The arithmetic results of react.py's example calls, as text.
ExpectedReactResult(call) ==
    CASE call = ToolCall("add", <<40, 12>>) -> <<"5", "2">>
      [] call = ToolCall("multiply", <<52, 6>>) -> <<"3", "1", "2">>
      [] call = ToolCall("subtract", <<12, 40>>) -> <<"-", "2", "8">>

\* The two ToolResult texts of the termination examples.
SavedToX ==
    <<"D", "o", "c", "u", "m", "e", "n", "t", " ", "h", "a", "s", " ", "b",
       "e", "e", "n", " ", "s", "a", "v", "e", "d", " ", "s", "u", "c", "c",
       "e", "s", "s", "f", "u", "l", "l", "y", " ", "t", "o", " ", "'", "x",
       ".", "t", "x", "t", "'", ".">>

ErrorDiskFull ==
    <<"E", "r", "r", "o", "r", " ", "s", "a", "v", "i", "n", "g", " ", "d",
       "o", "c", "u", "m", "e", "n", "t", ":", " ", "d", "i", "s", "k", " ",
       "f", "u", "l", "l">>

\* C1: in agent_bot and memory_agent, a line that spells the exit keyword in
\* any letter case, at any prompt, ends the input loop: the step that reads
\* it and every later step append nothing to the conversation and issue no
\* completion request, control never returns to the prompt or to the graph,
\* and no further line is read.
C1_ExitEndsLoop ==
    [][(variant \in LoopVariants /\ lastInput' \in ExitSpellings) =>
          /\ messages' = messages
          /\ llmCalls' = llmCalls
          /\ pc' \in {"done", "log", "crashed"}
          /\ (lastInput \in ExitSpellings => inputsRead' = inputsRead)]_vars

\* C1 witness: a loop session that ran an exchange and then ended on a
\* spelling of the keyword that is not all lower case.
C1_Witness ==
    /\ variant \in LoopVariants
    /\ lastInput \in ExitSpellings \ {ExitKeyword}
    /\ exchanges >= 1
    /\ pc = "done"

\* C2 as stated: in the drafter, reading a spelling of the exit keyword at
\* the prompt ends the session with no completion request for that turn.
C2_DrafterExitTerminates ==
    [][(variant = "drafter" /\ inputsRead' # inputsRead
            /\ lastInput' \in ExitSpellings) =>
          /\ llmCalls' = llmCalls
          /\ pc' = "end"]_vars

\* C2 as amended: the drafter does not recognise the exit keyword. Reading it
\* at the prompt issues a completion request like any other line, and when
\* the request returns the line is appended as a User turn, followed by the
\* Assistant turn, and the tools node is next.
C2_DrafterExitIsOrdinaryInput ==
    [][(variant = "drafter" /\ inputsRead' # inputsRead
            /\ lastInput' \in ExitSpellings) =>
          /\ llmCalls' = llmCalls + 1
          /\ pc' # "crashed" =>
                /\ pc' = "tools"
                /\ Len(messages') = Len(messages) + 2
                /\ IsPrefix(messages, messages')
                /\ messages'[Len(messages) + 1].type = "human"
                /\ messages'[Len(messages) + 1].content = lastInput'
                /\ messages'[Len(messages) + 2].type = "ai"]_vars

\* C2 witness: the tools node has run on the answer to an exit line.
C2_Witness ==
    /\ variant = "drafter"
    /\ lastInput \in ExitSpellings
    /\ toolsRuns = 2
    /\ messages[3].type = "human"
    /\ messages[3].content = lastInput

\* C3: in every script, every step leaves the conversation it found as a
\* prefix of the conversation it leaves: turns are only added at the tail.
C3_AppendOnly ==
    [][IsPrefix(messages, messages')]_vars

\* C3 witness: a drafter conversation that went through the agent node
\* twice and holds a ToolResult turn.
C3_Witness ==
    /\ variant = "drafter"
    /\ Len(messages) >= 5
    /\ Count(messages, "tool") >= 1
    /\ Count(messages, "human") = 2

\* C4: after N completed exchanges the conversation of a loop script is the
\* alternation User, Assistant, ... of length 2N; in the tool scripts it
\* holds N User turns and at least N Assistant turns, starts with a User
\* turn, and a ToolResult or User turn never directly follows a User turn.
C4_ExchangeShape ==
    /\ (variant \in LoopVariants /\ pc \in {"prompt", "log", "done"}) =>
          /\ Len(messages) = 2 * exchanges
          /\ \A i \in DOMAIN messages :
                messages[i].type = IF i % 2 = 1 THEN "human" ELSE "ai"
    /\ (\/ variant = "drafter" /\ pc \in {"tools", "agent", "end"}
        \/ variant = "react" /\ pc = "end") =>
          /\ Count(messages, "human") = exchanges
          /\ Count(messages, "ai") >= exchanges
          /\ messages # <<>> => messages[1].type = "human"
          /\ \A i \in DOMAIN messages :
                (i > 1 /\ messages[i].type \in {"tool", "human"}) =>
                    messages[i - 1].type \in {"ai", "tool"}

\* C4 witness: a loop session back at the prompt after two exchanges.
C4_Witness ==
    /\ variant \in LoopVariants
    /\ pc = "prompt"
    /\ exchanges = 2
    /\ Len(messages) = 4

\* C5: after the drafter's tools node, a ToolResult with the text of a
\* successful save to x.txt ends the session; a history whose ToolResults
\* all read "Error saving document: disk full" goes back to the agent node;
\* so does a history without any ToolResult.
C5_TerminationPredicate ==
    (variant = "drafter" /\ pc \in {"agent", "end"} /\ toolsRuns > 0) =>
        /\ SavedToX \in ToolContents(messages) =>
                  (pc = "end" /\ should_continue(messages) = "end")
        /\ ToolContents(messages) = {ErrorDiskFull} =>
                  (pc = "agent" /\ should_continue(messages) = "continue")
        /\ ToolContents(messages) = {} =>
                  (pc = "agent" /\ should_continue(messages) = "continue")

\* C5 witness: the tools node ran, a save failed with "disk full" and
\* control is back at the agent node.
C5_Witness ==
    /\ variant = "drafter"
    /\ toolsRuns > 0
    /\ ToolContents(messages) = {ErrorDiskFull}
    /\ pc = "agent"

\* C6 as stated: after the drafter's tools node the session ends if and only
\* if the most recent ToolResult turn contains "saved" in any letter case.
C6_MostRecentToolResultDecides ==
    (variant = "drafter" /\ pc \in {"agent", "end"} /\ toolsRuns > 0) =>
        (pc = "end" <=>
            /\ LastToolIndex(messages) > 0
            /\ contains(lower(messages[LastToolIndex(messages)].content), Marker))

C8_ReactRouting ==
    [][variant = "react" =>
          /\ (llmCalls' # llmCalls /\ pc' # "crashed") =>
                LET last == messages'[Len(messages')]
                IN /\ last.type = "ai"
                   /\ last.tool_calls # <<>> => pc' = "tools"
                   /\ last.tool_calls = <<>> => pc' = "end"
          /\ pc = "tools" => (pc' = "our_agent" /\ llmCalls' = llmCalls)
          /\ pc = "end" => UNCHANGED <<messages, llmCalls, toolsRuns>>]_vars

\* C8 witness: a react run that went through the tools node and then ended
\* on a response without tool invocations.
C8_Witness ==
    /\ variant = "react"
    /\ pc = "end"
    /\ toolsRuns >= 1
    /\ messages[Len(messages)].tool_calls = <<>>

\* C9 as stated: in react and in the drafter the tools node only ever runs
\* on a non-empty list of tool invocations.
C9_ToolsOnlyWithInvocations ==
    (variant \in ToolVariants /\ toolsRuns > 0) => requested # <<>>

\* C9 as amended: in react the tools node only runs on a non-empty list. In
\* the drafter it runs after every Assistant turn; on an empty list it
\* executes nothing, appends nothing and hands control back to the agent.
C9_ToolsNodeEntry ==
    [][/\ (variant = "react" /\ toolsRuns' # toolsRuns) => requested' # <<>>
       /\ (variant = "drafter" /\ llmCalls' # llmCalls /\ pc' # "crashed") =>
             pc' = "tools"
       /\ (variant = "drafter" /\ toolsRuns' # toolsRuns /\ requested' = <<>>) =>
             /\ messages' = messages
             /\ document_content' = document_content
             /\ fs' = fs
             /\ pc' = "agent"]_vars

\* C9 witness: the drafter's tools node has run on an empty list.
C9_Witness ==
    /\ variant = "drafter"
    /\ toolsRuns > 0
    /\ requested = <<>>
    /\ pc = "agent"

\* C10 as stated: after a tool dispatch that does not end the drafter, the
\* next completion request is issued without reading input and without a
\* new User turn.
C10_ContinuesWithoutUserInput ==
    [][(variant = "drafter" /\ pc = "agent" /\ toolsRuns > 0
            /\ llmCalls' # llmCalls) =>
          /\ inputsRead' = inputsRead
          /\ pc' # "crashed" =>
                Count(messages', "human") = Count(messages, "human")]_vars

\* C10 as amended: when no ToolResult holds the marker after a tool dispatch
\* the drafter goes back to the agent node, and the agent node reads one new
\* line of user input before the next completion request and appends it as
\* a User turn ahead of the Assistant turn.
C10_ContinuesWithNewUserInput ==
    [][variant = "drafter" =>
          /\ (toolsRuns' # toolsRuns
                /\ \A c \in ToolContents(messages') : ~contains(lower(c), Marker)) =>
                pc' = "agent"
          /\ (pc = "agent" /\ toolsRuns > 0 /\ llmCalls' # llmCalls) =>
                /\ inputsRead' = inputsRead + 1
                /\ pc' # "crashed" =>
                      /\ Count(messages', "human") = Count(messages, "human") + 1
                      /\ messages'[Len(messages') - 1].type = "human"
                      /\ messages'[Len(messages') - 1].content = lastInput']_vars

\* C10 witness: the agent node ran a second time, on the line "hi".
C10_Witness ==
    /\ variant = "drafter"
    /\ toolsRuns >= 1
    /\ inputsRead = 1
    /\ lastInput = <<"h", "i">>
    /\ pc = "tools"

\* The document a call at position i of one Assistant turn finds when the
\* calls before it have run in the order listed: the argument of the last
\* update before i, or the document as it was.
ExpectedDocument(calls, i, doc) ==
    IF \E j \in 1..(i - 1) : calls[j].name = "update"
    THEN calls[CHOOSE j \in 1..(i - 1) :
                   /\ calls[j].name = "update"
                   /\ \A l \in 1..(i - 1) : calls[l].name = "update" => l <= j].args[1]
    ELSE doc

ExpectedTarget(filename) ==
    CASE filename = <<"x">> -> <<"x", ".", "t", "x", "t">>
      [] filename = <<"x", ".", "t", "x", "t">> -> <<"x", ".", "t", "x", "t">>
      [] filename = <<"s", "a", "v", "e", "d">> -> <<"s", "a", "v", "e", "d", ".", "t", "x", "t">>

\* The text of a successful save, around the file name.
SavedTextBefore ==
    <<"D", "o", "c", "u", "m", "e", "n", "t", " ", "h", "a", "s", " ", "b",
       "e", "e", "n", " ", "s", "a", "v", "e", "d", " ", "s", "u", "c", "c",
       "e", "s", "s", "f", "u", "l", "l", "y", " ", "t", "o", " ", "'">>

SavedTextAfter ==
    <<"'", ".">>

\* C12: a save that succeeds writes the file named filename when filename
\* ends with .txt and filename.txt otherwise, touches no other file, and its
\* result names that same file; normalising a name twice changes nothing.
C12_SaveTargetName ==
    [][(variant = "drafter" /\ toolsRuns' # toolsRuns) =>
          \A i \in DOMAIN requested' :
              (requested'[i].name = "save" /\ outcomes'[i] = "ok") =>
                  LET target == ExpectedTarget(requested'[i].args[1])
                  IN /\ target \in DOMAIN fs'
                     /\ fs'[target].exists
                     /\ \A g \in DOMAIN fs' \ {target} : fs'[g] = fs[g]
                     /\ messages'[Len(messages) + i].content =
                            SavedTextBefore \o target \o SavedTextAfter
                     /\ save_target(save_target(requested'[i].args[1])) = target]_vars

\* C12 witness: save("x.txt") has written x.txt.
C12_Witness ==
    /\ variant = "drafter"
    /\ toolsRuns > 0
    /\ requested = <<ToolCall("save", <<<<"x", ".", "t", "x", "t">>>>)>>
    /\ outcomes = <<"ok">>
    /\ fs[<<"x", ".", "t", "x", "t">>].exists

ErrorSavingDocument ==
    <<"E", "r", "r", "o", "r", " ", "s", "a", "v", "i", "n", "g", " ", "d",
       "o", "c", "u", "m", "e", "n", "t">>

C14_TranscriptFailureCaught ==
    [][(variant = "memory_agent" /\ pc = "log") => pc' # "crashed"]_vars

ExpectedLogHeader ==
    <<"Y", "o", "u", "r", " ", "C", "o", "n", "v", "e", "r", "s", "a", "t",
       "i", "o", "n", " ", "L", "o", "g", ":", "\n">>

ExpectedLogTrailer ==
    <<"E", "n", "d", " ", "o", "f", " ", "C", "o", "n", "v", "e", "r", "s",
       "a", "t", "i", "o", "n">>

\* The transcript lines of one exchange of the model: the line "hi" and the
\* completion "ok".
ExpectedExchangeLog ==
    <<"Y", "o", "u", ":", " ", "h", "i", "\n", "A", "I", ":", " ", "o", "k",
       "\n", "\n">>

RECURSIVE Repeat(_, _)
Repeat(s, n) ==
    IF n = 0 THEN <<>> ELSE s \o Repeat(s, n - 1)

\* C15: when the memory agent has ended through the exit keyword and the
\* write has worked, logging.txt holds exactly the header line, one
\* "You: " line and one "AI: " line with a blank line after it per
\* exchange, in order, and the trailer: whatever the file held before.
C15_TranscriptFormat ==
    (variant = "memory_agent" /\ pc = "done") =>
        /\ lastInput \in ExitSpellings
        /\ Len(messages) = 2 * exchanges
        /\ \A i \in DOMAIN messages :
              messages[i].content = IF i % 2 = 1 THEN <<"h", "i">> ELSE <<"o", "k">>
        /\ fs[LoggingFile] =
              File(ExpectedLogHeader \o Repeat(ExpectedExchangeLog, exchanges)
                       \o ExpectedLogTrailer)

\* C15 witness: a session of two exchanges has been logged.
C15_Witness ==
    /\ variant = "memory_agent"
    /\ pc = "done"
    /\ exchanges = 2
    /\ fs[LoggingFile].exists

\* C16: a completion request either appends one Assistant turn or ends the
\* session there, with nothing appended; it is never issued twice in one
\* step, and after the session has ended this way nothing runs: no
\* request, no tool dispatch, no prompt.
C16_CompletionFailureEndsSession ==
    [][/\ llmCalls' # llmCalls =>
             /\ llmCalls' = llmCalls + 1
             /\ \/ /\ pc' # "crashed"
                   /\ pc' # pc
                   /\ Count(messages', "ai") = Count(messages, "ai") + 1
                \/ /\ pc' = "crashed"
                   /\ messages' = messages
                   /\ toolsRuns' = toolsRuns
                   /\ fs' = fs
       /\ pc = "crashed" =>
             /\ pc' = "crashed"
             /\ UNCHANGED <<messages, llmCalls, toolsRuns, inputsRead, fs>>]_vars

\* C16 witness: a loop session whose second completion request failed: the
\* last turn is the unanswered User turn.
C16_Witness ==
    /\ variant \in LoopVariants
    /\ pc = "crashed"
    /\ llmCalls = 2
    /\ exchanges = 1
    /\ messages[Len(messages)].type = "human"

\* C17 as stated: the drafter only reaches END after a save has written
\* its file.
C17_EndOnlyAfterSave ==
    (variant = "drafter" /\ pc = "end") => savesWritten > 0

\* logging.txt holds a transcript.
LogWritten ==
    /\ fs[LoggingFile].exists
    /\ IsPrefix(ExpectedLogHeader, fs[LoggingFile].content)

\* C18 as stated: once the memory agent has ended, logging.txt has been
\* written if and only if the session ended through the exit keyword.
C18_LogWrittenIffExit ==
    (variant = "memory_agent" /\ pc \in {"done", "crashed"}) =>
        (LogWritten <=> lastInput \in ExitSpellings)

\* C18 as amended: logging.txt is only touched by the one write attempt that
\* follows the exit keyword; the session ends normally only with the
\* transcript written; a failed completion leaves the file as it was.
C18_LogOnlyOnExitPath ==
    [][variant = "memory_agent" =>
          /\ fs' # fs => (pc = "log" /\ lastInput \in ExitSpellings)
          /\ (pc' = "log" /\ pc # "log") =>
                (pc = "prompt" /\ lastInput' \in ExitSpellings)
          /\ pc = "log" => pc' \in {"done", "crashed"}
          /\ pc' = "done" => (pc = "log" /\ LogWritten')
          /\ (pc' = "crashed" /\ llmCalls' # llmCalls) =>
                (fs' = fs /\ ~LogWritten')
          /\ pc \in {"done", "crashed"} => fs' = fs]_vars

\* C18 witness: a completion failed after one exchange and logging.txt
\* still holds what it held before the session.
C18_Witness ==
    /\ variant = "memory_agent"
    /\ pc = "crashed"
    /\ exchanges >= 1
    /\ lastInput \notin ExitSpellings
    /\ fs[LoggingFile] = File(<<"o", "l", "d">>)

\* The Assistant turns with and without tool invocations.
ToolTurns(msgs) ==
    {i \in DOMAIN msgs : msgs[i].type = "ai" /\ msgs[i].tool_calls # <<>>}

PlainTurns(msgs) ==
    {i \in DOMAIN msgs : msgs[i].type = "ai" /\ msgs[i].tool_calls = <<>>}

\* C19: the react workflow is at END exactly when the conversation holds an
\* Assistant turn without tool invocations; that turn is the last turn and
\* the only one of its kind, and the completion requests issued are the
\* tool-carrying Assistant turns plus one. While every response carries
\* tool invocations the workflow is not at END.
C19_ReactEndsAtFirstPlainTurn ==
    variant = "react" =>
        /\ pc = "end" <=> PlainTurns(messages) # {}
        /\ PlainTurns(messages) \subseteq {Len(messages)}
        /\ pc = "end" => llmCalls = Cardinality(ToolTurns(messages)) + 1
        /\ pc \in {"our_agent", "tools"} =>
              llmCalls = Cardinality(ToolTurns(messages))

\* C19 witness: a react run that ended on its second response, after one
\* round of tools.
C19_Witness ==
    /\ variant = "react"
    /\ pc = "end"
    /\ llmCalls = 2
    /\ Cardinality(ToolTurns(messages)) = 1
    /\ messages[Len(messages)].type = "ai"

====
